---- MODULE Spec2Model ----
(***************************************************************************)
(* Model of the ciw call-centre dashboard:                                 *)
(*   - event_log_from_ciw_recs (src/vidigi_utils.py), the conversion of    *)
(*     ciw trace records into a vidigi event log;                          *)
(*   - the server function of src/app.py: the n_reps input, the rep_error  *)
(*     output, the run_sim effect and the button enable/disable effect;    *)
(*   - summary_results (src/app.py), the describe() table.                 *)
(* Three specifications share the module: SpecLog, Spec and SpecSummary.   *)
(***************************************************************************)
EXTENDS Integers, Sequences, FiniteSets, TLC

(***************************************************************************)
(* Bounds of the model.                                                    *)
(***************************************************************************)
MaxRecs == 3

\* Two time points order any pair of dates either way.
Times == {0, 1}

MaxReps == 3

MaxInFlight == 2

MaxRuns == 2

EntityIds == {1, 2}

ServerIds == {1, 2}

VARIABLES
    ciw_recs_obj,     \* argument of event_log_from_ciw_recs
    node_name_list,   \* argument of event_log_from_ciw_recs
    set_order,        \* iteration order of the set built at vidigi_utils.py:18
    log_call,         \* "ready", "returned" or "raised"
    log_exc,          \* name of the exception raised by the call, "" if none
    event_log,        \* the DataFrame rows returned by the call
    id_comparisons,   \* evaluations of log.id_number==entity_id during the call
    n_reps,               \* input.n_reps() as the server sees it
    rep_error_out,        \* text rendered by the rep_error output
    button_update,        \* disabled= of the last ui.update_action_button
    client_n_reps,        \* value in the browser's Replications box
    client_disabled,      \* whether the browser's Run Simulation button is disabled
    to_server,            \* input messages in flight, browser to server
    to_client,            \* button updates in flight, server to browser
    pc,                   \* run_sim effect: "idle" or "sleeping" (at the await)
    run_count,            \* number of times the run_sim effect has started
    engine_calls,         \* every call of multiple_replications
    replication_results,  \* reactive.Value
    replication_logs,     \* reactive.Value
    animation_fig,        \* reactive.Value
    notifications,        \* notifications on display
    complete_shown_for,   \* run whose effect last showed "Simulation complete.", 0 if none
    effect_error,         \* exception that ended the last run of the effect
    replications,     \* argument of summary_results
    summary_call,     \* "ready", "returned" or "raised"
    summary_exc,      \* name of the exception raised by the call, "" if none
    summary           \* the table returned by summary_results

logVars == <<ciw_recs_obj, node_name_list, set_order, log_call, log_exc, event_log,
             id_comparisons>>

appVars == <<n_reps, rep_error_out, button_update, client_n_reps, client_disabled,
             to_server, to_client, pc, run_count, engine_calls,
             replication_results, replication_logs, animation_fig,
             notifications, complete_shown_for, effect_error>>

sumVars == <<replications, summary_call, summary_exc, summary>>

vars == <<logVars, appVars, sumVars>>

(***************************************************************************)
(* Trace records, as the ciw data records read by the function.            *)
(***************************************************************************)
TraceRecord ==
    { r \in [id_number : EntityIds,
             arrival_date : Times,
             service_start_date : Times,
             service_end_date : Times,
             exit_date : Times,
             server_id : ServerIds] :
        /\ r.arrival_date <= r.service_start_date
        /\ r.service_start_date <= r.service_end_date
        /\ r.service_end_date <= r.exit_date }

\* node_name_list=["operator", "nurse"] in create_animation
NodeNames == <<"operator", "nurse">>

Prefixes(s) == { SubSeq(s, 1, n) : n \in 0..Len(s) }

SeqsUpTo(S, n) == UNION { [1..m -> S] : m \in 0..n }

Range(s) == { s[i] : i \in DOMAIN s }

SetOrders(S) ==
    { p \in [1..Cardinality(S) -> S] : Range(p) = S }

(***************************************************************************)
(* event_log_from_ciw_recs                                                 *)
(***************************************************************************)
\* entity_ids = list(set([log.id_number for log in ciw_recs_obj]))
entity_ids(recs, order) ==
    SelectSeq(order, LAMBDA id : \E i \in DOMAIN recs : recs[i].id_number = id)

\* entity_tuples = [log for log in ciw_recs_obj if log.id_number==entity_id]
entity_tuples(recs, entity_id) ==
    SelectSeq(recs, LAMBDA log : log.id_number = entity_id)

ArrivalEntry(entity_id, event) ==
    [patient |-> entity_id,
     pathway |-> "Model",
     event_type |-> "arrival_departure",
     event |-> "arrival",
     time |-> event.arrival_date]

WaitBeginsEntry(entity_id, event, node) ==
    [patient |-> entity_id,
     pathway |-> "Model",
     event_type |-> "queue",
     event |-> node \o "_wait_begins",
     time |-> event.arrival_date]

MutBeginsEntry(entity_id, event, node) ==
    [patient |-> entity_id,
     pathway |-> "Model",
     event_type |-> "resource_use",
     event |-> node \o "_begins",
     time |-> event.arrival_date,
     resource_id |-> event.server_id]

BeginsEntry(entity_id, event, node) ==
    [patient |-> entity_id,
     pathway |-> "Model",
     event_type |-> "resource_use",
     event |-> node \o "_begins",
     time |-> event.service_start_date,
     resource_id |-> event.server_id]

EndsEntry(entity_id, event, node) ==
    [patient |-> entity_id,
     pathway |-> "Model",
     event_type |-> "resource_use",
     event |-> node \o "_ends",
     time |-> event.service_end_date,
     resource_id |-> event.server_id]

MutDepartEntry(entity_id, event) ==
    [patient |-> entity_id,
     pathway |-> "Model",
     event_type |-> "arrival_departure",
     event |-> "depart",
     time |-> event.arrival_date]

DepartEntry(entity_id, event) ==
    [patient |-> entity_id,
     pathway |-> "Model",
     event_type |-> "arrival_departure",
     event |-> "depart",
     time |-> event.exit_date]

MutNodeLookup(names, i) ==
    IF i < Len(names)
    THEN [exc |-> "", node |-> names[i + 1]]
    ELSE [exc |-> "", node |-> "unknown"]

\* node_name_list[i] for the 0-based i of enumerate(): a list index past the
\* end raises IndexError.
NodeLookup(names, i) ==
    IF i < Len(names)
    THEN [exc |-> "", node |-> names[i + 1]]
    ELSE [exc |-> "IndexError", node |-> ""]

MutLoopBody(entity_id, event, i, total_steps, names) ==
    LET first == IF i = 0 THEN <<ArrivalEntry(entity_id, event)>> ELSE <<>>
        look  == NodeLookup(names, i)
        last  == IF i = total_steps
                 THEN <<DepartEntry(entity_id, event)>> ELSE <<>>
    IN  IF look.exc # ""
        THEN [exc |-> look.exc, logs |-> first]
        ELSE [exc |-> "",
              logs |-> first \o
                       <<WaitBeginsEntry(entity_id, event, look.node),
                         BeginsEntry(entity_id, event, look.node),
                         EndsEntry(entity_id, event, look.node)>> \o
                       last]

\* One iteration of the loop over enumerate(entity_tuples): the entries it
\* appends to event_logs, or the exception it raises.
LoopBody(entity_id, event, i, total_steps, names) ==
    LET first == IF i = 0 THEN <<ArrivalEntry(entity_id, event)>> ELSE <<>>
        look  == NodeLookup(names, i)
        last  == IF i = total_steps - 1
                 THEN <<DepartEntry(entity_id, event)>> ELSE <<>>
    IN  IF look.exc # ""
        THEN [exc |-> look.exc, logs |-> first]
        ELSE [exc |-> "",
              logs |-> first \o
                       <<WaitBeginsEntry(entity_id, event, look.node),
                         BeginsEntry(entity_id, event, look.node),
                         EndsEntry(entity_id, event, look.node)>> \o
                       last]

\* for i, event in enumerate(entity_tuples): ... , from position i on
RECURSIVE RecordLoop(_, _, _, _, _)
RecordLoop(entity_id, tuples, i, names, event_logs) ==
    IF i >= Len(tuples)
    THEN [exc |-> "", logs |-> event_logs]
    ELSE LET body == LoopBody(entity_id, tuples[i + 1], i, Len(tuples), names)
         IN  IF body.exc # ""
             THEN [exc |-> body.exc, logs |-> event_logs \o body.logs]
             ELSE RecordLoop(entity_id, tuples, i + 1, names,
                             event_logs \o body.logs)

\* for entity_id in entity_ids: ... , from position j (1-based) on.
\* Each iteration builds entity_tuples by comparing the id of every record
\* of ciw_recs_obj with entity_id; compared counts these comparisons over
\* the iterations entered.
RECURSIVE EntityLoop(_, _, _, _, _)
EntityLoop(recs, ids, j, names, event_logs) ==
    IF j > Len(ids)
    THEN [exc |-> "", logs |-> event_logs, compared |-> (j - 1) * Len(recs)]
    ELSE LET inner == RecordLoop(ids[j], entity_tuples(recs, ids[j]), 0,
                                 names, event_logs)
         IN  IF inner.exc # ""
             THEN [exc |-> inner.exc, logs |-> inner.logs,
                   compared |-> j * Len(recs)]
             ELSE EntityLoop(recs, ids, j + 1, names, inner.logs)

Mut_event_log_from_ciw_recs(recs, names, order) ==
    LET first == NodeLookup(names, 0)
        run == EntityLoop(recs, entity_ids(recs, order), 1, names, <<>>)
    IN  IF first.exc # ""
        THEN [exc |-> first.exc, df |-> <<>>, compared |-> 0]
        ELSE IF run.exc # ""
        THEN [exc |-> run.exc, df |-> <<>>, compared |-> run.compared]
        ELSE [exc |-> "", df |-> run.logs, compared |-> run.compared]

\* The whole function: exc is the exception that escapes ("" if none), df the
\* rows of the returned DataFrame (nothing is returned when exc # ""),
\* compared the number of id comparisons made while grouping.
event_log_from_ciw_recs(recs, names, order) ==
    LET run == EntityLoop(recs, entity_ids(recs, order), 1, names, <<>>)
    IN  IF run.exc # ""
        THEN [exc |-> run.exc, df |-> <<>>, compared |-> run.compared]
        ELSE [exc |-> "", df |-> run.logs, compared |-> run.compared]

\* event_position_df of create_animation: the layout table handed to the
\* animation engine.
event_position_df ==
    << [event |-> "arrival", x |-> 30, y |-> 350, label |-> "Arrival"],
       [event |-> "operator_wait_begins", x |-> 220, y |-> 270,
        label |-> "Waiting for Operator"],
       [event |-> "operator_begins", x |-> 220, y |-> 210,
        resource |-> "n_operators", label |-> "Speaking to operator"],
       [event |-> "nurse_wait_begins", x |-> 220, y |-> 110,
        label |-> "Waiting for Nurse"],
       [event |-> "nurse_begins", x |-> 220, y |-> 50,
        resource |-> "n_nurses", label |-> "Speaking to Nurse"],
       [event |-> "exit", x |-> 270, y |-> 10, label |-> "Exit"] >>

\* The attributes of class model_params of create_animation.
model_params == {"n_operators", "n_nurses"}


(***************************************************************************)
(* The server function of app.py.                                          *)
(***************************************************************************)
\* ui.input_numeric(id="n_reps", value=10, min=1): the arrows respect min,
\* typing does not.
InitialReps == 10

RepChoices == {-1, 0, 1, 2, 10}

REP_ERROR == "Error: Set number of replications to 1 or above"

\* reactive.Value() holds nothing until first set; the run_sim effect sets
\* [] and then the value of a run.
Unset == [kind |-> "unset", run |-> 0, n |-> 0]

EmptyList == [kind |-> "list", run |-> 0, n |-> 0]

\* rep_error: the text it renders for a value of input.n_reps()
RepErrorText(v) == IF v < 1 THEN REP_ERROR ELSE ""

MutButtonDisabledFor(v) == IF v < 0 THEN TRUE ELSE FALSE

\* the button effect: the disabled= it passes to ui.update_action_button
ButtonDisabledFor(v) == IF v < 1 THEN TRUE ELSE FALSE

\* multiple_replications(user_experiment, n_reps=n): one summary row and one
\* trace-record collection per replication, or an exception.
MultipleReplications(n, run) ==
    { [exc |-> "",
       results |-> [kind |-> "DataFrame", run |-> run, n |-> IF n > 0 THEN n ELSE 0],
       logs |-> [kind |-> "logs", run |-> run, n |-> IF n > 0 THEN n ELSE 0]],
      [exc |-> "Exception", results |-> EmptyList, logs |-> EmptyList] }

\* run_simulation(): builds the Experiment and calls the engine with
\* input.n_reps(), whatever its value.
run_simulation(n, run) == MultipleReplications(n, run)

MutFirstRunLogs(logs) == [run |-> logs.run, index |-> logs.n - 1]

\* logs_run_1 = logs[0]: the trace collection of the run that produced
\* logs, at index 0.
FirstRunLogs(logs) == [run |-> logs.run, index |-> 0]

\* create_animation(logs): logs[0] raises IndexError on an empty list; the
\* event log and the figure are built from logs[0], and building them may
\* raise.
create_animation(logs) ==
    IF logs.n = 0
    THEN { [exc |-> "IndexError", fig |-> EmptyList] }
    ELSE LET logs_run_1 == FirstRunLogs(logs)
         IN  { [exc |-> "",
                fig |-> [kind |-> "figure", run |-> logs_run_1.run,
                         index |-> logs_run_1.index]],
               [exc |-> "Exception", fig |-> EmptyList] }

MutResetStored(old) == old

\* replication_results.set([]), replication_logs.set([]) and
\* animation_fig.set([]): the value that replaces old.
ResetStored(old) == EmptyList

InitApp ==
    /\ n_reps = InitialReps
    /\ rep_error_out = RepErrorText(InitialReps)
    /\ button_update = ButtonDisabledFor(InitialReps)
    /\ client_n_reps = InitialReps
    /\ client_disabled = FALSE
    /\ to_server = <<>>
    /\ to_client = <<>>
    /\ pc = "idle"
    /\ run_count = 0
    /\ engine_calls = <<>>
    /\ replication_results = Unset
    /\ replication_logs = Unset
    /\ animation_fig = Unset
    /\ notifications = {}
    /\ complete_shown_for = 0
    /\ effect_error = ""

\* The user types a value into the Replications box.
UserSetNReps(v) ==
    /\ UNCHANGED <<logVars, sumVars>>
    /\ v # client_n_reps
    /\ Len(to_server) < MaxInFlight
    /\ client_n_reps' = v
    /\ to_server' = Append(to_server, [input |-> "n_reps", value |-> v])
    /\ UNCHANGED <<n_reps, rep_error_out, button_update, client_disabled,
                   to_client, pc, run_count, engine_calls, replication_results,
                   replication_logs, animation_fig, notifications,
                   complete_shown_for, effect_error>>

\* The user clicks Run Simulation; a disabled button cannot be clicked.
UserClickRun ==
    /\ UNCHANGED <<logVars, sumVars>>
    /\ ~client_disabled
    /\ Len(to_server) < MaxInFlight
    /\ run_count + Len(SelectSeq(to_server, LAMBDA m : m.input = "run_sim"))
            < MaxRuns
    /\ to_server' = Append(to_server, [input |-> "run_sim", value |-> 0])
    /\ UNCHANGED <<n_reps, rep_error_out, button_update, client_n_reps,
                   client_disabled, to_client, pc, run_count, engine_calls,
                   replication_results, replication_logs, animation_fig,
                   notifications, complete_shown_for, effect_error>>

\* The browser applies a button update sent by ui.update_action_button.
ClientRecvUpdate ==
    /\ UNCHANGED <<logVars, sumVars>>
    /\ to_client # <<>>
    /\ client_disabled' = Head(to_client).disabled
    /\ to_client' = Tail(to_client)
    /\ UNCHANGED <<n_reps, rep_error_out, button_update, client_n_reps,
                   to_server, pc, run_count, engine_calls, replication_results,
                   replication_logs, animation_fig, notifications,
                   complete_shown_for, effect_error>>

\* The server takes a new value of input.n_reps and flushes: rep_error is
\* rendered again and the button effect runs.
ServerRecvNReps ==
    /\ UNCHANGED <<logVars, sumVars>>
    /\ pc = "idle"
    /\ to_server # <<>>
    /\ Head(to_server).input = "n_reps"
    /\ Len(to_client) < MaxInFlight
    /\ LET v == Head(to_server).value
       IN  /\ n_reps' = v
           /\ rep_error_out' = RepErrorText(v)
           /\ button_update' = ButtonDisabledFor(v)
           /\ to_client' = Append(to_client, [disabled |-> ButtonDisabledFor(v)])
    /\ to_server' = Tail(to_server)
    /\ UNCHANGED <<client_n_reps, client_disabled, pc, run_count, engine_calls,
                   replication_results, replication_logs, animation_fig,
                   notifications, complete_shown_for, effect_error>>

\* The run_sim effect, from the click up to its await: reset of the three
\* values, the running notification, run_simulation(), the stores and
\* create_animation(). An exception ends the effect where it is raised.
RunSimEffect ==
    /\ UNCHANGED <<logVars, sumVars>>
    /\ pc = "idle"
    /\ to_server # <<>>
    /\ Head(to_server).input = "run_sim"
    /\ to_server' = Tail(to_server)
    /\ run_count' = run_count + 1
    /\ engine_calls' = Append(engine_calls,
                              [run |-> run_count + 1, n_reps |-> n_reps,
                               results |-> ResetStored(replication_results),
                               logs |-> ResetStored(replication_logs),
                               fig |-> ResetStored(animation_fig)])
    /\ notifications' = notifications \cup {"sim_running_notification"}
    /\ UNCHANGED complete_shown_for
    /\ \E sim \in run_simulation(n_reps, run_count + 1) :
        IF sim.exc # ""
        THEN /\ replication_results' = ResetStored(replication_results)
             /\ replication_logs' = ResetStored(replication_logs)
             /\ animation_fig' = ResetStored(animation_fig)
             /\ effect_error' = sim.exc
             /\ pc' = "idle"
        ELSE /\ replication_results' = sim.results
             /\ replication_logs' = sim.logs
             /\ \E anim \in create_animation(sim.logs) :
                 IF anim.exc # ""
                 THEN /\ animation_fig' = ResetStored(animation_fig)
                      /\ effect_error' = anim.exc
                      /\ pc' = "idle"
                 ELSE /\ animation_fig' = anim.fig
                      /\ effect_error' = ""
                      /\ pc' = "sleeping"
    /\ UNCHANGED <<n_reps, rep_error_out, button_update, client_n_reps,
                   client_disabled, to_client>>

\* The run_sim effect after asyncio.sleep(3).
RunSimResume ==
    /\ UNCHANGED <<logVars, sumVars>>
    /\ pc = "sleeping"
    /\ notifications' = (notifications \ {"sim_running_notification"})
                            \cup {"Simulation complete."}
    /\ complete_shown_for' = run_count
    /\ pc' = "idle"
    /\ UNCHANGED <<n_reps, rep_error_out, button_update, client_n_reps,
                   client_disabled, to_server, to_client, run_count,
                   engine_calls, replication_results, replication_logs,
                   animation_fig, effect_error>>

(***************************************************************************)
(* summary_results                                                         *)
(*                                                                         *)
(* The statistics of the summary table are held in hundredths (1234 is     *)
(* 12.34), which is what round(2) keeps. KPI values are floats of finer    *)
(* resolution: they are held in thirds of a hundredth (3001 is 10.00333..).*)
(***************************************************************************)
\* The display names of the metrics dict of run_simulation.
Metrics == <<"Time waiting for operator (mins)",
             "Operator utilisation (%)",
             "Time waiting for nurse (mins)",
             "Nurse utilisation (%)">>

\* KPI units per hundredth.
UnitsPerHundredth == 3

\* 10, 10.00333.., 20 and 30
KpiValues == {3000, 3001, 6000, 9000}

\* The [] that the run_sim effect stores in replication_results.
EmptyResultsList == [kind |-> "list", columns |-> <<>>, rows |-> <<>>]

\* Values of the second KPI column: 10 and 20.
UtilisationValues == {3000, 6000}

\* The rows of a replication results table of c columns.
ResultRows(c) ==
    IF c = 1
    THEN { <<a>> : a \in KpiValues }
    ELSE { <<a, b>> : a \in KpiValues, b \in UtilisationValues }

\* Replication results: one row per replication, one value per column.
DataFrames ==
    UNION { { [kind |-> "DataFrame", columns |-> SubSeq(Metrics, 1, c), rows |-> r] :
                r \in [1..n -> ResultRows(c)] } :
            n \in 1..MaxReps, c \in 1..2 }

Column(df, j) == [i \in DOMAIN df.rows |-> df.rows[i][j]]

RECURSIVE Sum(_)
Sum(xs) == IF xs = <<>> THEN 0 ELSE Head(xs) + Sum(Tail(xs))

RECURSIVE Insert(_, _)
Insert(x, sorted) ==
    IF sorted = <<>> THEN <<x>>
    ELSE IF x <= Head(sorted) THEN <<x>> \o sorted
    ELSE <<Head(sorted)>> \o Insert(x, Tail(sorted))

RECURSIVE Sorted(_)
Sorted(xs) == IF xs = <<>> THEN <<>> ELSE Insert(Head(xs), Sorted(Tail(xs)))

\* round(2) of the non-negative rational num/den hundredths: the nearest
\* hundredth, a tie going to the even one.
Round2(num, den) ==
    LET q == num \div den
        r == num % den
    IN  IF 2 * r < den THEN q
        ELSE IF 2 * r > den THEN q + 1
        ELSE IF q % 2 = 0 THEN q ELSE q + 1

MutMean(xs) == Sum(xs) \div (UnitsPerHundredth * Len(xs))

Mean(xs) == Round2(Sum(xs), UnitsPerHundredth * Len(xs))

Min(xs) == Round2(Sorted(xs)[1], UnitsPerHundredth)

Max(xs) == Round2(Sorted(xs)[Len(xs)], UnitsPerHundredth)

\* The k-th quartile (k = 1, 2, 3), by linear interpolation between the
\* order statistics around position (n - 1) * k / 4.
Quartile(xs, k) ==
    LET sorted == Sorted(xs)
        h == (Len(xs) - 1) * k
        lo == h \div 4
        frac == h % 4
    IN  IF frac = 0
        THEN Round2(sorted[lo + 1], UnitsPerHundredth)
        ELSE Round2(4 * sorted[lo + 1] + frac * (sorted[lo + 2] - sorted[lo + 1]),
                    4 * UnitsPerHundredth)

Squares(xs) == [i \in DOMAIN xs |-> xs[i] * xs[i]]

\* The least r in lo..hi with (r + 1/2)^2 > num/den, found by bisection:
\* sqrt(num/den) to the nearest integer.
RECURSIVE RoundedSqrt(_, _, _, _)
RoundedSqrt(num, den, lo, hi) ==
    IF lo >= hi
    THEN lo
    ELSE LET mid == (lo + hi) \div 2
         IN  IF 4 * num < (2 * mid + 1) * (2 * mid + 1) * den
             THEN RoundedSqrt(num, den, lo, mid)
             ELSE RoundedSqrt(num, den, mid + 1, hi)

MutStd(xs) ==
    LET n == Len(xs)
        sorted == Sorted(xs)
    IN  [nan |-> FALSE,
         value |-> RoundedSqrt(n * Sum(Squares(xs)) - Sum(xs) * Sum(xs),
                               n * n * UnitsPerHundredth * UnitsPerHundredth,
                               0, (sorted[n] - sorted[1]) \div UnitsPerHundredth + 1)]

\* Sample standard deviation (n - 1 denominator): NaN for a single row.
\* It never exceeds the range of the values.
Std(xs) ==
    LET n == Len(xs)
        sorted == Sorted(xs)
    IN  IF n = 1
        THEN [nan |-> TRUE, value |-> 0]
        ELSE [nan |-> FALSE,
              value |-> RoundedSqrt(n * Sum(Squares(xs)) - Sum(xs) * Sum(xs),
                                    n * (n - 1) * UnitsPerHundredth * UnitsPerHundredth,
                                    0, (sorted[n] - sorted[1]) \div UnitsPerHundredth + 1)]

\* One row of describe().round(2).T after reset_index and rename: the
\* column's name and the eight statistics of describe().
DescribeRow(df, j) ==
    LET xs == Column(df, j)
    IN  ("metric" :> df.columns[j]) @@
        ("count" :> 100 * Len(xs)) @@
        ("mean" :> Mean(xs)) @@
        ("std" :> Std(xs)) @@
        ("min" :> Min(xs)) @@
        ("25%" :> Quartile(xs, 1)) @@
        ("50%" :> Quartile(xs, 2)) @@
        ("75%" :> Quartile(xs, 3)) @@
        ("max" :> Max(xs))

MutSummaryRow(df, j) == DescribeRow(df, j)

\* drop(columns=['count']) of that row.
SummaryRow(df, j) ==
    LET described == DescribeRow(df, j)
    IN  [k \in DOMAIN described \ {"count"} |-> described[k]]

\* summary_results(replications): a list has no describe().
summary_results(reps) ==
    IF reps.kind = "list"
    THEN [exc |-> "AttributeError", table |-> <<>>]
    ELSE [exc |-> "",
          table |-> [j \in DOMAIN reps.columns |-> SummaryRow(reps, j)]]

SummaryIdle ==
    /\ replications = EmptyResultsList
    /\ summary_call = "ready"
    /\ summary_exc = ""
    /\ summary = <<>>

(***************************************************************************)
(* SpecLog: one call of event_log_from_ciw_recs on bounded inputs.         *)
(***************************************************************************)
InitLog ==
    /\ ciw_recs_obj \in SeqsUpTo(TraceRecord, MaxRecs)
    /\ node_name_list \in Prefixes(NodeNames)
    /\ set_order \in SetOrders(EntityIds)
    /\ log_call = "ready"
    /\ log_exc = ""
    /\ event_log = <<>>
    /\ id_comparisons = 0
    /\ InitApp
    /\ SummaryIdle

CallEventLog ==
    /\ log_call = "ready"
    /\ LET res == event_log_from_ciw_recs(ciw_recs_obj, node_name_list, set_order)
       IN  /\ log_call' = IF res.exc = "" THEN "returned" ELSE "raised"
           /\ log_exc' = res.exc
           /\ event_log' = res.df
           /\ id_comparisons' = res.compared
    /\ UNCHANGED <<ciw_recs_obj, node_name_list, set_order>>
    /\ UNCHANGED <<appVars, sumVars>>

NextLog == CallEventLog

SpecLog == InitLog /\ [][NextLog]_vars

(***************************************************************************)
(* Spec: the dashboard session (browser, server inputs, run_sim effect).   *)
(***************************************************************************)
LogIdle ==
    /\ ciw_recs_obj = <<>>
    /\ node_name_list = NodeNames
    /\ set_order = <<1, 2>>
    /\ log_call = "ready"
    /\ log_exc = ""
    /\ event_log = <<>>
    /\ id_comparisons = 0

Init == InitApp /\ LogIdle /\ SummaryIdle

Next ==
    \/ \E v \in RepChoices : UserSetNReps(v)
    \/ UserClickRun
    \/ ClientRecvUpdate
    \/ ServerRecvNReps
    \/ RunSimEffect
    \/ RunSimResume

Spec == Init /\ [][Next]_vars

(***************************************************************************)
(* SpecSummary: the result_table output computes the summary table of the  *)
(* value held in replication_results.                                      *)
(***************************************************************************)
InitSummary ==
    /\ replications \in {EmptyResultsList} \cup DataFrames
    /\ summary_call = "ready"
    /\ summary_exc = ""
    /\ summary = <<>>
    /\ InitApp
    /\ LogIdle

\* result_table: return summary_results(replication_results())
result_table ==
    /\ summary_call = "ready"
    /\ LET res == summary_results(replications)
       IN  /\ summary_call' = IF res.exc = "" THEN "returned" ELSE "raised"
           /\ summary_exc' = res.exc
           /\ summary' = res.table
    /\ UNCHANGED <<replications, logVars, appVars>>

NextSummary == result_table

SpecSummary == InitSummary /\ [][NextSummary]_vars

(***************************************************************************)
(* Properties of the dashboard session, checked under Spec.                *)
(***************************************************************************)
\* C4: a run request with a replication count below 1 never invokes the
\* simulation engine: multiple_replications is only ever called with
\* n_reps >= 1.
C4_EngineOnlyValidReps ==
    \A i \in DOMAIN engine_calls : engine_calls[i].n_reps >= 1

\* C5: whenever input.n_reps() is below 1 the rep_error output shows the
\* error and the last button update disables Run Simulation; whenever it is
\* 1 or above no error is shown and the last button update enables it; and
\* once no message is in flight the browser's button is disabled exactly
\* when the value in the Replications box is below 1.
C5_ValidationFollowsInput ==
    /\ n_reps < 1 => (rep_error_out = REP_ERROR /\ button_update = TRUE)
    /\ n_reps >= 1 => (rep_error_out = "" /\ button_update = FALSE)
    /\ (to_server = <<>> /\ to_client = <<>>) =>
           /\ n_reps = client_n_reps
           /\ client_disabled = (client_n_reps < 1)

\* C5 witness: the value 0 has reached the server, the error is shown and
\* the browser has disabled the button.
C5_Witness ==
    /\ n_reps = 0
    /\ client_n_reps = 0
    /\ rep_error_out = REP_ERROR
    /\ client_disabled
    /\ to_server = <<>>
    /\ to_client = <<>>

(***************************************************************************)
(* Properties of event_log_from_ciw_recs, checked under SpecLog.           *)
(***************************************************************************)
RecsOf(e) == SelectSeq(ciw_recs_obj, LAMBDA r : r.id_number = e)

LogOf(e) == SelectSeq(event_log, LAMBDA en : en.patient = e)

PositionsOf(e) == { p \in DOMAIN event_log : event_log[p].patient = e }

\* The entry wanted at position p (1-based) of the block of entity e whose
\* records, in input order, are tuples.
ExpectedEntry(e, tuples, p) ==
    LET k == Len(tuples)
        i == (p - 2) \div 3
        slot == (p - 2) % 3
    IN  IF p = 1
        THEN [patient |-> e, pathway |-> "Model",
              event_type |-> "arrival_departure", event |-> "arrival",
              time |-> tuples[1].arrival_date]
        ELSE IF p = 3 * k + 2
        THEN [patient |-> e, pathway |-> "Model",
              event_type |-> "arrival_departure", event |-> "depart",
              time |-> tuples[k].exit_date]
        ELSE IF slot = 0
        THEN [patient |-> e, pathway |-> "Model", event_type |-> "queue",
              event |-> node_name_list[i + 1] \o "_wait_begins",
              time |-> tuples[i + 1].arrival_date]
        ELSE IF slot = 1
        THEN [patient |-> e, pathway |-> "Model", event_type |-> "resource_use",
              event |-> node_name_list[i + 1] \o "_begins",
              time |-> tuples[i + 1].service_start_date,
              resource_id |-> tuples[i + 1].server_id]
        ELSE [patient |-> e, pathway |-> "Model", event_type |-> "resource_use",
              event |-> node_name_list[i + 1] \o "_ends",
              time |-> tuples[i + 1].service_end_date,
              resource_id |-> tuples[i + 1].server_id]

\* C1: when the call returns, the entries of every entity are, in this order,
\* arrival at the first record's arrival_date; per record i the entries
\* <node i>_wait_begins at arrival_date, <node i>_begins at
\* service_start_date and <node i>_ends at service_end_date, the two
\* resource_use entries with resource_id = server_id; depart at the last
\* record's exit_date; all with patient = the entity id and pathway "Model";
\* and the block is contiguous in the log.
C1_BlockOrder ==
    log_call = "returned" =>
        \A e \in EntityIds :
            LET tuples == RecsOf(e)
                block == LogOf(e)
            IN  IF tuples = <<>>
                THEN block = <<>>
                ELSE /\ Len(block) = 3 * Len(tuples) + 2
                     /\ \A p \in 1..Len(block) :
                            block[p] = ExpectedEntry(e, tuples, p)
                     /\ \A p, q \in PositionsOf(e) :
                            \A m \in p..q : m \in PositionsOf(e)

\* C1 witness: a call returned for two entities whose records interleave in
\* the input, one of them visiting both nodes.
C1_Witness ==
    /\ log_call = "returned"
    /\ Len(ciw_recs_obj) = 3
    /\ ciw_recs_obj[1].id_number = ciw_recs_obj[3].id_number
    /\ ciw_recs_obj[2].id_number # ciw_recs_obj[1].id_number
    /\ ciw_recs_obj[1].service_start_date # ciw_recs_obj[1].arrival_date
    /\ ciw_recs_obj[3].exit_date # ciw_recs_obj[3].arrival_date
    /\ Len(event_log) = 13

CountOf(e, type) ==
    Cardinality({ p \in PositionsOf(e) : event_log[p].event_type = type })

\* C2: when the call returns, an entity with k >= 1 records has exactly
\* 1 + 3k + 1 entries: 2 arrival_departure entries (one arrival, one depart),
\* k queue entries and 2k resource_use entries.
C2_EntryCount ==
    log_call = "returned" =>
        \A e \in EntityIds :
            LET k == Cardinality({ i \in DOMAIN ciw_recs_obj :
                                     ciw_recs_obj[i].id_number = e })
            IN  k >= 1 =>
                    /\ Cardinality(PositionsOf(e)) = 1 + 3 * k + 1
                    /\ CountOf(e, "arrival_departure") = 2
                    /\ Cardinality({ p \in PositionsOf(e) :
                                       event_log[p].event = "arrival" }) = 1
                    /\ Cardinality({ p \in PositionsOf(e) :
                                       event_log[p].event = "depart" }) = 1
                    /\ CountOf(e, "queue") = k
                    /\ CountOf(e, "resource_use") = 2 * k

\* C2 witness: a returned log holding an entity with one record (5 entries)
\* and an entity with two records (8 entries).
C2_Witness ==
    /\ log_call = "returned"
    /\ \E e \in EntityIds : Len(RecsOf(e)) = 1 /\ Len(LogOf(e)) = 5
    /\ \E e \in EntityIds : Len(RecsOf(e)) = 2 /\ Len(LogOf(e)) = 8

NonDecreasing(times) ==
    \A p \in 1..(Len(times) - 1) : times[p] <= times[p + 1]

BlockTimes(e) == [p \in DOMAIN LogOf(e) |-> LogOf(e)[p].time]

\* The TraceRecord constraints of the data model for entity e: per record
\* arrival <= service start <= service end <= exit (true of every
\* TraceRecord of the model) and arrival_date non-decreasing along the
\* entity's records.
ArrivalsNonDecreasing(e) ==
    NonDecreasing([i \in DOMAIN RecsOf(e) |-> RecsOf(e)[i].arrival_date])

\* Each record of e arrives no earlier than the previous record's service
\* ended.
ArrivesAfterPreviousService(e) ==
    \A i \in 1..(Len(RecsOf(e)) - 1) :
        RecsOf(e)[i].service_end_date <= RecsOf(e)[i + 1].arrival_date

\* C3 as stated: for records satisfying the data-model constraints (arrival
\* dates non-decreasing per entity), the times of each entity's entries are
\* non-decreasing in emission order.
C3_Original ==
    log_call = "returned" =>
        \A e \in EntityIds :
            ArrivalsNonDecreasing(e) => NonDecreasing(BlockTimes(e))

\* C3 amended: when, in addition, every record of the entity arrives no
\* earlier than the service end of the entity's previous record, the times
\* of the entity's entries are non-decreasing in emission order.
C3_TimesNonDecreasing ==
    log_call = "returned" =>
        \A e \in EntityIds :
            (ArrivalsNonDecreasing(e) /\ ArrivesAfterPreviousService(e))
                => NonDecreasing(BlockTimes(e))

\* C3 witness: a returned block of two records whose dates are not all
\* equal and satisfy the amended precondition.
C3_Witness ==
    /\ log_call = "returned"
    /\ \E e \in EntityIds :
        /\ Len(RecsOf(e)) = 2
        /\ ArrivalsNonDecreasing(e)
        /\ ArrivesAfterPreviousService(e)
        /\ RecsOf(e)[1].arrival_date < RecsOf(e)[2].exit_date
        /\ Len(LogOf(e)) = 8

\* Some entity has more records than node_name_list has labels.
MoreRecordsThanLabels ==
    \E e \in EntityIds : Len(RecsOf(e)) > Len(node_name_list)

\* C6: a call in which some entity has more records than there are labels
\* raises IndexError and returns no event log.
C6_IndexErrorNoLog ==
    (log_call # "ready" /\ MoreRecordsThanLabels) =>
        /\ log_call = "raised"
        /\ log_exc = "IndexError"
        /\ event_log = <<>>

\* C6 witness: the call raised for an entity with three records against the
\* two labels.
C6_Witness ==
    /\ log_call = "raised"
    /\ log_exc = "IndexError"
    /\ Len(node_name_list) = 2
    /\ \E e \in EntityIds : Len(RecsOf(e)) = 3

\* C7: a call with an empty trace-record collection returns an empty event
\* log and raises nothing, whatever node_name_list is.
C7_EmptyInputEmptyLog ==
    (log_call # "ready" /\ ciw_recs_obj = <<>>) =>
        /\ log_call = "returned"
        /\ log_exc = ""
        /\ event_log = <<>>

\* C7 witness: the call returned for empty records and an empty label list.
C7_Witness ==
    /\ log_call = "returned"
    /\ ciw_recs_obj = <<>>
    /\ node_name_list = <<>>
    /\ event_log = <<>>

(***************************************************************************)
(* Properties of summary_results, checked under SpecSummary.               *)
(***************************************************************************)
\* C8: computing the summary table of the empty value that the run_sim
\* effect stores in replication_results raises no error.
C8_EmptyResultsNoError ==
    (summary_call # "ready" /\ replications = EmptyResultsList) =>
        /\ summary_call = "returned"
        /\ summary_exc = ""

Abs(x) == IF x < 0 THEN -x ELSE x

\* The j-th smallest of the values of xs, by counting.
OrderStatistic(xs, j) ==
    CHOOSE v \in Range(xs) :
        /\ Cardinality({ i \in DOMAIN xs : xs[i] < v }) < j
        /\ j <= Cardinality({ i \in DOMAIN xs : xs[i] <= v })

QuartileNames == <<"25%", "50%", "75%">>

\* Four times the k-th quartile of xs by linear interpolation.
FourQuartiles(xs, k) ==
    LET h == (Len(xs) - 1) * k
        lo == h \div 4
        frac == h % 4
    IN  IF frac = 0
        THEN 4 * OrderStatistic(xs, lo + 1)
        ELSE 4 * OrderStatistic(xs, lo + 1) +
             frac * (OrderStatistic(xs, lo + 2) - OrderStatistic(xs, lo + 1))

\* row's min, max and quartiles are those of xs to the nearest hundredth.
MinMaxQuartilesOf(row, xs) ==
    /\ 2 * Abs(UnitsPerHundredth * row["min"] - OrderStatistic(xs, 1))
           <= UnitsPerHundredth
    /\ 2 * Abs(UnitsPerHundredth * row["max"] - OrderStatistic(xs, Len(xs)))
           <= UnitsPerHundredth
    /\ \A k \in 1..3 :
           2 * Abs(4 * UnitsPerHundredth * row[QuartileNames[k]] - FourQuartiles(xs, k))
               <= 4 * UnitsPerHundredth

\* row's min, max and quartiles are those of xs exactly.
ExactMinMaxQuartilesOf(row, xs) ==
    /\ UnitsPerHundredth * row["min"] = OrderStatistic(xs, 1)
    /\ UnitsPerHundredth * row["max"] = OrderStatistic(xs, Len(xs))
    /\ \A k \in 1..3 :
           4 * UnitsPerHundredth * row[QuartileNames[k]] = FourQuartiles(xs, k)

ScenarioOf(row, xs) ==
    xs = <<3000, 6000, 9000>> =>
        /\ row["mean"] = 2000
        /\ row["min"] = 1000
        /\ row["max"] = 3000
        /\ row["50%"] = 2000

\* C10 as stated: for n >= 1 rows the table holds, per KPI column, the
\* arithmetic mean of the column's values, their minimum, maximum and
\* quartiles; the column [10, 20, 30] gives mean 20, min 10, max 30, 50% 20.
C10_Original ==
    summary_call = "returned" =>
        \A j \in DOMAIN summary :
            LET xs == Column(replications, j)
                row == summary[j]
            IN  /\ UnitsPerHundredth * Len(xs) * row["mean"] = Sum(xs)
                /\ ExactMinMaxQuartilesOf(row, xs)
                /\ ScenarioOf(row, xs)

\* C10 amended: the table holds, per KPI column, the arithmetic mean, the
\* minimum, the maximum and the quartiles (linear interpolation), each
\* rounded to two decimal places; the column [10, 20, 30] gives mean 20,
\* min 10, max 30, 50% 20.
C10_RoundedStatistics ==
    summary_call = "returned" =>
        \A j \in DOMAIN summary :
            LET xs == Column(replications, j)
                row == summary[j]
            IN  /\ 2 * Abs(UnitsPerHundredth * Len(xs) * row["mean"] - Sum(xs))
                       <= UnitsPerHundredth * Len(xs)
                /\ MinMaxQuartilesOf(row, xs)
                /\ ScenarioOf(row, xs)

\* C10 witness: the table of three replications whose first column is
\* [10, 20, 30] and whose second column has a mean that round(2) changes.
C10_Witness ==
    /\ summary_call = "returned"
    /\ Len(replications.columns) = 2
    /\ Column(replications, 1) = <<3000, 6000, 9000>>
    /\ Column(replications, 2) = <<3000, 3000, 6000>>
    /\ summary[1]["mean"] = 2000
    /\ summary[2]["mean"] = 1333

\* C11 as stated: for replication results of exactly one row the summary
\* table is produced without error, and for every KPI column the mean, the
\* min and the max each equal that row's value and the standard deviation
\* is not-a-number.
C11_Original ==
    (summary_call # "ready" /\ replications.kind = "DataFrame"
        /\ Len(replications.rows) = 1) =>
        /\ summary_call = "returned"
        /\ summary_exc = ""
        /\ \A j \in DOMAIN replications.columns :
               /\ UnitsPerHundredth * summary[j]["mean"] = replications.rows[1][j]
               /\ UnitsPerHundredth * summary[j]["min"] = replications.rows[1][j]
               /\ UnitsPerHundredth * summary[j]["max"] = replications.rows[1][j]
               /\ summary[j]["std"].nan

\* The statistic s (hundredths) is the value x rounded to two decimals.
IsRounded(s, x) == 2 * Abs(UnitsPerHundredth * s - x) <= UnitsPerHundredth

\* C11 amended: for replication results of exactly one row the summary
\* table is produced without error, and for every KPI column the mean, the
\* min and the max each equal that row's value rounded to two decimal
\* places and the standard deviation is not-a-number.
C11_SingleRowSummary ==
    (summary_call # "ready" /\ replications.kind = "DataFrame"
        /\ Len(replications.rows) = 1) =>
        /\ summary_call = "returned"
        /\ summary_exc = ""
        /\ \A j \in DOMAIN replications.columns :
               /\ IsRounded(summary[j]["mean"], replications.rows[1][j])
               /\ IsRounded(summary[j]["min"], replications.rows[1][j])
               /\ IsRounded(summary[j]["max"], replications.rows[1][j])
               /\ summary[j]["std"].nan

\* C11 witness: the table of one replication whose KPI value 10.00333.. is
\* shown as 10.00 with a not-a-number standard deviation.
C11_Witness ==
    /\ summary_call = "returned"
    /\ Len(replications.rows) = 1
    /\ replications.rows[1][1] = 3001
    /\ summary[1]["mean"] = 1000
    /\ summary[1]["min"] = 1000
    /\ summary[1]["max"] = 1000
    /\ summary[1]["std"].nan

StatisticNames == {"mean", "std", "min", "25%", "50%", "75%", "max"}

\* C12: the summary table has exactly one row per KPI column of the
\* replication results, named after it, and each row holds exactly the
\* statistics mean, std, min, 25%, 50%, 75% and max; the replication count
\* is not part of the output.
C12_RowsAndStatistics ==
    summary_call = "returned" =>
        /\ Len(summary) = Len(replications.columns)
        /\ \A j \in DOMAIN summary :
               /\ summary[j]["metric"] = replications.columns[j]
               /\ DOMAIN summary[j] \ {"metric"} = StatisticNames
               /\ "count" \notin DOMAIN summary[j]

\* C12 witness: the table of two replications of two KPI columns has two
\* rows of seven statistics.
C12_Witness ==
    /\ summary_call = "returned"
    /\ Len(replications.rows) = 2
    /\ Len(replications.columns) = 2
    /\ Len(summary) = 2
    /\ summary[2]["metric"] = Metrics[2]
    /\ DOMAIN summary[2] = StatisticNames \cup {"metric"}

(***************************************************************************)
(* Further properties of event_log_from_ciw_recs, checked under SpecLog.   *)
(***************************************************************************)
LayoutEvents == { event_position_df[k].event : k \in DOMAIN event_position_df }

LayoutResources ==
    { event_position_df[k].resource :
        k \in { r \in DOMAIN event_position_df :
                  "resource" \in DOMAIN event_position_df[r] } }

\* C13: every event string that event_log_from_ciw_recs emits for the node
\* names ["operator", "nurse"] has a row in the layout table
\* event_position_df, and every resource-pool name in the layout table is an
\* attribute of the scenario object.
C13_EveryEventHasLayoutRow ==
    /\ LayoutResources \subseteq model_params
    /\ (log_call = "returned" /\ node_name_list = <<"operator", "nurse">>) =>
           \A k \in DOMAIN event_log : event_log[k].event \in LayoutEvents

\* C16: event_log_from_ciw_recs partitions the input records by entity in a
\* single pass: while grouping, the id of each input record is examined
\* once, not once per entity.
C16_SinglePassGrouping ==
    log_call = "returned" => id_comparisons <= Len(ciw_recs_obj)

(***************************************************************************)
(* Further properties of the dashboard session, checked under Spec.        *)
(***************************************************************************)
IsEmptyValue(v) == v.kind \in {"unset", "list"}

\* C14: a new run resets the stored results, logs and animation to empty
\* before the simulation engine is invoked; hence in every state each of the
\* three stored values is empty or comes from the most recently started
\* run, and values of two different runs are never held together.
C14_ResetBeforeEngine ==
    /\ \A i \in DOMAIN engine_calls :
           /\ engine_calls[i].results = EmptyList
           /\ engine_calls[i].logs = EmptyList
           /\ engine_calls[i].fig = EmptyList
    /\ \A v \in {replication_results, replication_logs, animation_fig} :
           IsEmptyValue(v) \/ v.run = run_count
    /\ \A v, w \in {replication_results, replication_logs, animation_fig} :
           (~IsEmptyValue(v) /\ ~IsEmptyValue(w)) => v.run = w.run

\* C14 witness: after a first run that completed with its results, logs and
\* animation stored, the second run called the engine with the three values
\* reset, and all three stored values are now the second run's.
C14_Witness ==
    /\ run_count = 2
    /\ pc = "sleeping"
    /\ engine_calls[2].results = EmptyList
    /\ complete_shown_for = 1
    /\ replication_results.kind = "DataFrame" /\ replication_results.run = 2
    /\ replication_logs.kind = "logs" /\ replication_logs.run = 2
    /\ animation_fig.kind = "figure" /\ animation_fig.run = 2

\* C15: for every run with replication count n >= 1 whose effect raises
\* nothing, the animation stored is built from index 0 of the trace
\* collections returned by that same run; a stored animation is never built
\* from another replication or from an earlier run.
C15_AnimationFromFirstReplication ==
    /\ animation_fig.kind = "figure" =>
           /\ animation_fig.index = 0
           /\ animation_fig.run = run_count
           /\ replication_logs.kind = "logs"
           /\ replication_logs.run = run_count
           /\ replication_logs.n >= 1
    /\ (run_count >= 1 /\ effect_error = "") =>
           (engine_calls[run_count].n_reps >= 1 =>
               animation_fig = [kind |-> "figure", run |-> run_count, index |-> 0])

\* C15 witness: a run of two replications has completed and its animation
\* is the one built from index 0 of its logs.
C15_Witness ==
    /\ run_count >= 1
    /\ pc = "idle"
    /\ effect_error = ""
    /\ engine_calls[run_count].n_reps = 2
    /\ replication_logs = [kind |-> "logs", run |-> run_count, n |-> 2]
    /\ animation_fig = [kind |-> "figure", run |-> run_count, index |-> 0]

\* C17: every start of the run_sim effect, which shows the running
\* notification, is followed by the removal of that notification and by the
\* 'Simulation complete.' notification, also when the simulation or the
\* animation construction fails: once the effect has ended, the running
\* notification is no longer on display and 'Simulation complete.' has been
\* shown for the run. And 'Simulation complete.' is shown for a run only
\* with that run's results, logs and animation stored.
C17_RunningThenComplete ==
    /\ (pc = "idle" /\ run_count >= 1) =>
           /\ "sim_running_notification" \notin notifications
           /\ complete_shown_for = run_count
    /\ (run_count >= 1 /\ complete_shown_for = run_count) =>
           /\ replication_results.kind = "DataFrame" /\ replication_results.run = run_count
           /\ replication_logs.kind = "logs" /\ replication_logs.run = run_count
           /\ animation_fig.kind = "figure" /\ animation_fig.run = run_count

====
